---- MODULE Spec2Model ----
(***************************************************************************)
(* A model of the L2DB storage engine of src/l2db.py: the 64-byte header,  *)
(* the index block and the value block of one opened database, and the     *)
(* operations of class L2DB on them.  Bytes are integers 0..255, a byte    *)
(* string is a sequence of bytes, a text string is the sequence of its     *)
(* code points; str.encode and bytes.decode are UTF-8.                     *)
(***************************************************************************)
EXTENDS Integers, Sequences, FiniteSets, TLC

VARIABLES
    header,     \* self.__db['header']
    index,      \* self.__db['index']
    values,     \* self.__db['values']
    mode,       \* self.__mode, as the set of its letters
    file,       \* the bytes of the file behind self.__fileref (<<>> if none)
    fileref,    \* self.__fileref: "None", "open" (opened 'r+b'), "open rb", "closed"
    result,     \* the last call: its name, arguments, exception and return value
    ncalls      \* number of calls made on the session so far

vars == <<header, index, values, mode, file, fileref, result, ncalls>>

----------------------------------------------------------------------------
(* Bounds of the model *)

\* calls made on one session in the general specification
MaxCalls == 3
\* calls made on one session in the long-run specification
MaxRun == 10
\* calls made on one session in the specification of the opened sessions
MaxOpenCalls == 2

----------------------------------------------------------------------------
(* Python's bytes and struct primitives *)

Min(a, b) == IF a < b THEN a ELSE b

\* s[a:b] with Python's clamping of out-of-range and negative bounds
PySlice(s, a, b) ==
    LET n  == Len(s)
        lo == IF a < 0 THEN (IF a + n < 0 THEN 0 ELSE a + n) ELSE Min(a, n)
        hi == IF b < 0 THEN (IF b + n < 0 THEN 0 ELSE b + n) ELSE Min(b, n)
    IN  IF lo >= hi THEN <<>> ELSE SubSeq(s, lo + 1, hi)

\* s[a:]
PyFrom(s, a) == PySlice(s, a, Len(s))

\* s[:b]
PyTo(s, b) == PySlice(s, 0, b)

Zeros(n) == [i \in 1..n |-> 0]

\* big-endian unsigned value of a byte string
RECURSIVE BE(_)
BE(b) == IF b = <<>> THEN 0 ELSE BE(SubSeq(b, 1, Len(b) - 1)) * 256 + b[Len(b)]

\* struct.pack('>H', n)
pack_H(n) == <<(n \div 256) % 256, n % 256>>

\* struct.pack('>I', n) for 0 <= n < 2^31 (the model's offsets stay below it)
pack_I(n) == <<(n \div 16777216) % 256, (n \div 65536) % 256, (n \div 256) % 256, n % 256>>

\* struct.pack('>i', n): two's complement on 32 bits
pack_i(n) == <<(n \div 16777216) % 256, (n \div 65536) % 256, (n \div 256) % 256, n % 256>>

\* struct.pack('>Q', n) for 0 <= n < 2^31
pack_Q(n) == <<0, 0, 0, 0>> \o pack_I(n)

\* struct.unpack('>i', b)[0] of four bytes
unpack_i(b) == (IF b[1] >= 128 THEN b[1] - 256 ELSE b[1]) * 16777216 + BE(SubSeq(b, 2, 4))

\* UTF-8.  A text is the sequence of its code points.
\* the length of the sequence a lead byte announces, 0 for a byte that leads
\* none
utf8_len(b0) ==
    IF b0 < 128 THEN 1
    ELSE IF b0 \in 194..223 THEN 2
    ELSE IF b0 \in 224..239 THEN 3
    ELSE IF b0 \in 240..244 THEN 4
    ELSE 0

\* a well-formed sequence starts at position i of b
utf8_ok(b, i) ==
    /\ utf8_len(b[i]) > 0
    /\ i + utf8_len(b[i]) - 1 <= Len(b)
    /\ \A j \in (i + 1)..(i + utf8_len(b[i]) - 1) : b[j] \in 128..191
    /\ b[i] = 224 => b[i + 1] >= 160
    /\ b[i] = 237 => b[i + 1] <= 159
    /\ b[i] = 240 => b[i + 1] >= 144
    /\ b[i] = 244 => b[i + 1] <= 143

\* the code point of the well-formed sequence at position i of b
utf8_point(b, i) ==
    CASE utf8_len(b[i]) = 1 -> b[i]
      [] utf8_len(b[i]) = 2 -> (b[i] - 192) * 64 + (b[i + 1] - 128)
      [] utf8_len(b[i]) = 3 -> (b[i] - 224) * 4096 + (b[i + 1] - 128) * 64 + (b[i + 2] - 128)
      [] OTHER -> (b[i] - 240) * 262144 + (b[i + 1] - 128) * 4096
                  + (b[i + 2] - 128) * 64 + (b[i + 3] - 128)

\* bytes.decode('utf-8') from position i on: ok tells whether it succeeds, s
\* is the text
RECURSIVE utf8_decode(_, _, _)
utf8_decode(b, i, acc) ==
    IF i > Len(b) THEN [ok |-> TRUE, s |-> acc]
    ELSE IF ~utf8_ok(b, i) THEN [ok |-> FALSE, s |-> <<>>]
    ELSE utf8_decode(b, i + utf8_len(b[i]), Append(acc, utf8_point(b, i)))

\* bytes.decode('utf-8') does not raise UnicodeDecodeError
Decodes(b) == utf8_decode(b, 1, <<>>).ok

\* the UTF-8 bytes of one code point
utf8_bytes(c) ==
    IF c < 128 THEN <<c>>
    ELSE IF c < 2048 THEN <<192 + (c \div 64), 128 + (c % 64)>>
    ELSE IF c < 65536
    THEN <<224 + (c \div 4096), 128 + ((c \div 64) % 64), 128 + (c % 64)>>
    ELSE <<240 + (c \div 262144), 128 + ((c \div 4096) % 64),
           128 + ((c \div 64) % 64), 128 + (c % 64)>>

\* the type tags, three ASCII letters each
TagRaw == <<114, 97, 119>>
TagStr == <<115, 116, 114>>
TagInt == <<105, 110, 116>>
TagUin == <<117, 105, 110>>
TagFlt == <<102, 108, 116>>
TagFpn == <<102, 112, 110>>
TagBol == <<98, 111, 108>>
TagNul == <<110, 117, 108>>
TagInv == <<105, 110, 118>>

----------------------------------------------------------------------------
(* Header codec *)

\* the file magic b'\x88L2DB\x00\x00\x00'
Magic == <<136, 76, 50, 68, 66, 0, 0, 0>>

\* spec_version = '2.0.0'
SpecVersion == <<2, 0, 0>>

getbit(seq, pos) == (seq \div (2 ^ pos)) % 2

\* flag2flag of an int: the names of the flags set in a flag byte
flag2flag(flags) ==
    (IF getbit(flags, 2) = 1 THEN {"LOCKED"} ELSE {})
    \cup (IF getbit(flags, 1) = 1 THEN {"DIRTY"} ELSE {})
    \cup (IF getbit(flags, 0) = 1 THEN {"X64_INDEXES"} ELSE {})

\* flag2flag of a tuple of names: the flag byte
flagbits(names) ==
    (IF "LOCKED" \in names THEN 4 ELSE 0)
    + (IF "DIRTY" \in names THEN 2 ELSE 0)
    + (IF "X64_INDEXES" \in names THEN 1 ELSE 0)

\* str(n) of an int n >= 0, as '{}'.format writes it
RECURSIVE DecStr(_)
DecStr(n) == IF n < 10 THEN <<48 + n>> ELSE DecStr(n \div 10) \o <<48 + (n % 10)>>

\* int(s) of a text of decimal digits
RECURSIVE DecInt(_)
DecInt(s) ==
    IF s = <<>> THEN 0 ELSE DecInt(SubSeq(s, 1, Len(s) - 1)) * 10 + (s[Len(s)] - 48)

IsDigits(s) == s # <<>> /\ \A i \in 1..Len(s) : s[i] \in 48..57

\* s.split('.'): cur is the piece being read, acc the pieces before it
RECURSIVE split_dot(_, _, _)
split_dot(s, cur, acc) ==
    IF s = <<>> THEN Append(acc, cur)
    ELSE IF s[1] = 46 THEN split_dot(Tail(s), <<>>, Append(acc, cur))
    ELSE split_dot(Tail(s), Append(cur, s[1]), acc)

\* tuple(int(v) for v in spec_ver.split('.')[:3]); a piece int() rejects
\* makes new_header fall back on spec_version (pieces int() accepts with
\* a sign, blanks or underscores are taken as rejected)
spec_ver_tuple(spec_ver) ==
    IF \A i \in 1..Len(PyTo(split_dot(spec_ver, <<>>, <<>>), 3)) :
            IsDigits(split_dot(spec_ver, <<>>, <<>>)[i])
    THEN [i \in 1..Len(PyTo(split_dot(spec_ver, <<>>, <<>>), 3)) |->
            DecInt(split_dot(spec_ver, <<>>, <<>>)[i])]
    ELSE SpecVersion

\* '{}.{}.{}'.format(*t)
spec_ver_format(t) == DecStr(t[1]) \o <<46>> \o DecStr(t[2]) \o <<46>> \o DecStr(t[3])

\* the struct.pack of new_header, spec_ver given as the tuple of its numbers
new_header(spec_ver, index_len, flags) ==
    Magic \o pack_H(spec_ver[1]) \o pack_H(spec_ver[2]) \o pack_H(spec_ver[3])
          \o pack_i(index_len) \o <<flags>> \o Zeros(45)

\* get_headerdata of a 64-byte header (another length raises struct.error)
get_headerdata(h) ==
    [magic    |-> SubSeq(h, 1, 8),
     spec_ver |-> spec_ver_format(<<BE(SubSeq(h, 9, 10)), BE(SubSeq(h, 11, 12)),
                                    BE(SubSeq(h, 13, 14))>>),
     idx_len  |-> unpack_i(SubSeq(h, 15, 18)),
     flags    |-> flag2flag(h[19])]

\* L2DB.__flag on a header of at least 19 bytes
Flag(h, name) == name \in flag2flag(h[19])

----------------------------------------------------------------------------
(* Python values and the value codec *)

\* a Python value: its type name, its bytes or characters, its number
PyStr(b)   == [ty |-> "str", b |-> b, n |-> 0]
PyBytes(b) == [ty |-> "bytes", b |-> b, n |-> 0]
PyInt(n)   == [ty |-> "int", b |-> <<>>, n |-> n]
PyBool(v)  == [ty |-> "bool", b |-> <<>>, n |-> IF v THEN 1 ELSE 0]
PyNone     == [ty |-> "NoneType", b |-> <<>>, n |-> 0]
\* float('NaN'), and the tuple struct.unpack returns for a stored float
PyNaN      == [ty |-> "float", b |-> <<>>, n |-> 0]
PyFltTuple(b) == [ty |-> "tuple", b |-> b, n |-> 0]

\* str2bin: s.encode('utf-8')
RECURSIVE str2bin(_)
str2bin(s) == IF s = <<>> THEN <<>> ELSE utf8_bytes(Head(s)) \o str2bin(Tail(s))

\* bin2str: b.decode('utf-8'), for bytes that decode
bin2str(b) == utf8_decode(b, 1, <<>>).s

\* num2bin of an int, signed; the model's integers fit 32 bits, so the
\* 8-byte case and the out-of-range case (which returns None) are not reached
num2bin(n) ==
    IF n \in -127..127 THEN <<n % 256>>
    ELSE IF n \in -32768..32767 THEN pack_H(n % 65536)
    ELSE pack_i(n)

\* bin2num(b, astype); astype is a tag
bin2num(b, astype) ==
    CASE astype = TagUin ->
            IF Len(b) > 8 THEN [exc |-> "struct.error", ret |-> PyNone]
            ELSE [exc |-> "none", ret |-> PyInt(BE(b))]
      [] astype = TagInt ->
            IF Len(b) = 1 THEN [exc |-> "none", ret |-> PyInt(IF b[1] >= 128 THEN b[1] - 256 ELSE b[1])]
            ELSE IF Len(b) = 2
                 THEN [exc |-> "none", ret |-> PyInt(IF b[1] >= 128 THEN BE(b) - 65536 ELSE BE(b))]
            ELSE IF Len(b) = 4 THEN [exc |-> "none", ret |-> PyInt(unpack_i(b))]
            ELSE IF Len(b) = 8
                 THEN [exc |-> "none",
                       ret |-> PyInt((IF b[1] >= 128 THEN b[1] - 256 ELSE b[1]) * (2 ^ 56)
                                     + BE(SubSeq(b, 2, 8)))]
            ELSE [exc |-> "none", ret |-> PyNaN]
      [] astype = TagFlt ->
            IF Len(b) \in {4, 8} THEN [exc |-> "none", ret |-> PyFltTuple(b)]
            ELSE [exc |-> "none", ret |-> PyNaN]
      [] OTHER -> [exc |-> "none", ret |-> PyNone]

----------------------------------------------------------------------------
(* Python ints of any size, and the number codec over them *)

\* A Python int that need not fit the model's own 32-bit integers: its sign
\* and the big-endian base-256 digits of its magnitude without leading
\* zeros; zero has the empty magnitude and is not negative
Long(neg, mag) == [neg |-> neg /\ mag # <<>>, mag |-> mag]

RECURSIVE Strip(_)
Strip(b) == IF b # <<>> /\ b[1] = 0 THEN Strip(Tail(b)) ELSE b

\* b.rjust(w, b'\0')
rjust(b, w) == IF Len(b) >= w THEN b ELSE Zeros(w - Len(b)) \o b

\* a < b for digit strings of one length
RECURSIVE DigitsLess(_, _)
DigitsLess(a, b) ==
    IF a = <<>> THEN FALSE
    ELSE IF a[1] # b[1] THEN a[1] < b[1]
    ELSE DigitsLess(Tail(a), Tail(b))

\* a < b for magnitudes
MagLess(a, b) == IF Len(a) # Len(b) THEN Len(a) < Len(b) ELSE DigitsLess(a, b)

\* x < y
LongLess(x, y) ==
    IF x.neg # y.neg THEN x.neg
    ELSE IF x.neg THEN MagLess(y.mag, x.mag)
    ELSE MagLess(x.mag, y.mag)

\* n in range(lo, hi)
InRange(n, lo, hi) == ~LongLess(n, lo) /\ LongLess(n, hi)

\* the magnitude 2^e
Pow2(e) == <<2 ^ (e % 8)>> \o Zeros(e \div 8)

\* b + 1 and b - 1 on the width of b, wrapping around
RECURSIVE Incr(_)
Incr(b) ==
    IF b = <<>> THEN <<>>
    ELSE IF b[Len(b)] < 255 THEN SubSeq(b, 1, Len(b) - 1) \o <<b[Len(b)] + 1>>
    ELSE Incr(SubSeq(b, 1, Len(b) - 1)) \o <<0>>

RECURSIVE Decr(_)
Decr(b) ==
    IF b = <<>> THEN <<>>
    ELSE IF b[Len(b)] > 0 THEN SubSeq(b, 1, Len(b) - 1) \o <<b[Len(b)] - 1>>
    ELSE Decr(SubSeq(b, 1, Len(b) - 1)) \o <<255>>

Compl(b) == [i \in 1..Len(b) |-> 255 - b[i]]

\* struct.pack('>B' | '>H' | '>I' | '>Q', n) for 0 <= n < 2^(8w)
pack_unsigned(n, w) == rjust(n.mag, w)

\* struct.pack('>b' | '>h' | '>i' | '>q', n) for -2^(8w-1) <= n < 2^(8w-1):
\* two's complement on w bytes
pack_signed(n, w) == IF n.neg THEN Incr(Compl(rjust(n.mag, w))) ELSE rjust(n.mag, w)

\* a sign-blind reading of the bytes
unpack_magnitude(b) == Long(FALSE, Strip(b))

\* struct.unpack('>b' | '>h' | '>i' | '>q', b)[0]
unpack_signed(b) ==
    IF b[1] >= 128 THEN Long(TRUE, Strip(Incr(Compl(b)))) ELSE Long(FALSE, Strip(b))

\* struct.unpack('>Q', b)[0]
unpack_unsigned(b) == Long(FALSE, Strip(b))

\* num2bin(n, unsigned) of an int of any size; the signed branch falls off
\* its end, returning None, for an int outside 64 bits
num2bin_long(n, unsigned) ==
    IF unsigned
    THEN IF LongLess(n, Long(FALSE, <<>>)) THEN PyBytes(<<>>)
         ELSE IF LongLess(n, Long(FALSE, Pow2(8))) THEN PyBytes(pack_unsigned(n, 1))
         ELSE IF LongLess(n, Long(FALSE, Pow2(16))) THEN PyBytes(pack_unsigned(n, 2))
         ELSE IF LongLess(n, Long(FALSE, Pow2(32))) THEN PyBytes(pack_unsigned(n, 4))
         ELSE IF LongLess(n, Long(FALSE, Pow2(64))) THEN PyBytes(pack_unsigned(n, 8))
         ELSE PyBytes(<<>>)
    ELSE IF InRange(n, Long(TRUE, <<127>>), Long(FALSE, <<128>>))
         THEN PyBytes(pack_signed(n, 1))
         ELSE IF InRange(n, Long(TRUE, Pow2(15)), Long(FALSE, Pow2(15)))
         THEN PyBytes(pack_signed(n, 2))
         ELSE IF InRange(n, Long(TRUE, Pow2(31)), Long(FALSE, Pow2(31)))
         THEN PyBytes(pack_signed(n, 4))
         ELSE IF InRange(n, Long(TRUE, Pow2(63)), Long(FALSE, Pow2(63)))
         THEN PyBytes(pack_signed(n, 8))
         ELSE PyNone

\* an int beyond 32 bits as a value: the digits of its magnitude in b, its
\* sign in n (the ints of 32 bits keep b empty)
PyLong(x) == [ty |-> "int", b |-> x.mag, n |-> IF x.neg THEN -1 ELSE 1]
IsLong(val) == val.ty = "int" /\ val.b # <<>>
LongOf(val) == Long(val.n < 0, val.b)

\* get_type: an int above 2^63-1 is a 'uin'
get_type(val) ==
    CASE val.ty = "bytes"    -> TagRaw
      [] val.ty = "str"      -> TagStr
      [] val.ty = "float"    -> TagFlt
      [] val.ty = "int"      -> IF IsLong(val) /\ ~LongLess(LongOf(val), Long(FALSE, Pow2(63)))
                                THEN TagUin ELSE TagInt
      [] val.ty = "bool"     -> TagBol
      [] val.ty = "NoneType" -> TagNul
      [] OTHER               -> TagInv

\* bin2num(b, astype) for astype 'uin' or 'int', b being what num2bin
\* returned: None has neither rjust nor a length
bin2num_long(b, astype) ==
    IF astype = TagUin
    THEN IF b.ty = "NoneType" THEN [exc |-> "AttributeError", ret |-> PyNone]
         ELSE IF Len(b.b) > 8 THEN [exc |-> "struct.error", ret |-> PyNone]
         ELSE [exc |-> "none", ret |-> PyInt(unpack_unsigned(rjust(b.b, 8)))]
    ELSE IF b.ty = "NoneType" THEN [exc |-> "TypeError", ret |-> PyNone]
         ELSE IF Len(b.b) \in {1, 2, 4, 8} THEN [exc |-> "none", ret |-> PyInt(unpack_signed(b.b))]
         ELSE [exc |-> "none", ret |-> PyNaN]

\* the model's integer that a Long of 32 signed bits stands for, and back
ToInt32(n) == unpack_i(pack_signed(n, 4))
FromInt32(i) == unpack_signed(pack_i(i))

\* new_header(spec_ver, index_len, flags) as it is called: spec_ver a text,
\* index_len an int of any size; struct.pack raises struct.error for a
\* missing argument or a number outside its format ('H', 'i', 'B')
new_header_str(spec_ver, index_len, flags) ==
    IF \/ Len(spec_ver_tuple(spec_ver)) # 3
       \/ \E i \in 1..Len(spec_ver_tuple(spec_ver)) : spec_ver_tuple(spec_ver)[i] > 65535
       \/ ~InRange(index_len, Long(TRUE, Pow2(31)), Long(FALSE, Pow2(31)))
       \/ flags \notin 0..255
    THEN [exc |-> "struct.error", ret |-> PyNone]
    ELSE [exc |-> "none",
          ret |-> PyBytes(new_header(spec_ver_tuple(spec_ver), ToInt32(index_len), flags))]

----------------------------------------------------------------------------
(* Index scan *)

\* width of the two offset fields of an index entry
validx_size(wide) == IF wide THEN 16 ELSE 8

\* struct.unpack('>II' or '>QQ') of the offset fields
unpack_offsets(b, wide) ==
    IF wide THEN <<BE(SubSeq(b, 1, 8)), BE(SubSeq(b, 9, 16))>>
    ELSE <<BE(SubSeq(b, 1, 4)), BE(SubSeq(b, 5, 8))>>

\* the byte on which the entry buffered from position s (1-based) on ends:
\* the first 0x00 byte that leaves the buffer longer than the offset fields
\* plus the tag; 0 if the index block ends before
RECURSIVE EntryEnd(_, _)
EntryEnd(idx, i) ==
    IF i > Len(idx) THEN 0 ELSE IF idx[i] = 0 THEN i ELSE EntryEnd(idx, i + 1)

\* the loop of get_keyoffset: the entries the scan cuts out of the index block,
\* in order, each with its unpacked offsets, its tag, its name and the index
\* offset it starts at; bytes left over after the last entry are in no entry
RECURSIVE ScanIndex(_, _, _, _)
ScanIndex(idx, s, wide, acc) ==
    LET e == EntryEnd(idx, s + validx_size(wide) + 3)
    IN  IF e = 0 THEN acc
        ELSE ScanIndex(idx, e + 1, wide,
                Append(acc, [offs |-> unpack_offsets(SubSeq(idx, s, s + validx_size(wide) - 1), wide),
                             tag  |-> SubSeq(idx, s + validx_size(wide), s + validx_size(wide) + 2),
                             name |-> SubSeq(idx, s + validx_size(wide) + 3, e - 1),
                             at   |-> s - 1]))

Entries(idx, wide) == ScanIndex(idx, 1, wide, <<>>)

\* the loop of get_keyoffset over the scanned entries, from entry i on: each
\* entry's name is decoded (which raises on a name that is not text) and the
\* scan returns at the first entry named keyname
RECURSIVE find_key(_, _, _)
find_key(es, keyname, i) ==
    IF i > Len(es) THEN [exc |-> "none", offs |-> <<-1, -1>>]
    ELSE IF ~Decodes(es[i].name) THEN [exc |-> "UnicodeDecodeError", offs |-> <<-1, -1>>]
    ELSE IF bin2str(es[i].name) = keyname THEN [exc |-> "none", offs |-> es[i].offs]
    ELSE find_key(es, keyname, i + 1)

\* get_keyoffset(keyname) on an index block already buffered: the value
\* offsets of the first entry named keyname, (-1,-1) if there is none
get_keyoffset(keyname, idx, wide) == find_key(Entries(idx, wide), keyname, 1)

----------------------------------------------------------------------------
(* File access of the unbuffered ('f') mode *)

\* file.seek(pos); file.read(n): n = -1 reads to the end of the file
FileRead(f, pos, n) == IF n < 0 THEN PyFrom(f, pos) ELSE PySlice(f, pos, pos + n)

\* overwrite_in_file: file.seek(offset); file.write(data), a seek past the end
\* of the file fills the gap with zero bytes once something is written
overwrite_in_file(f, offset, data) ==
    IF data = <<>> THEN f
    ELSE IF offset > Len(f) THEN f \o Zeros(offset - Len(f)) \o data
    ELSE PyTo(f, offset) \o data \o PyFrom(f, offset + Len(data))

\* a session: the fields of an L2DB object that its calls work on
Session == [header |-> header, index |-> index, values |-> values, mode |-> mode, file |-> file]

\* the header and index that read and get_keyoffset of session s buffer
\* before they scan: in 'f' mode both are read again from the file, the index
\* as long as that header says; a length below -1 makes file.read raise
\* ValueError, after the header was replaced and before the index is
buffer(s) ==
    IF "f" \notin s.mode
    THEN [exc |-> "none", header |-> s.header, index |-> s.index]
    ELSE IF get_headerdata(PyTo(s.file, 64)).idx_len < -1
    THEN [exc |-> "ValueError", header |-> PyTo(s.file, 64), index |-> s.index]
    ELSE [exc |-> "none", header |-> PyTo(s.file, 64),
          index |-> FileRead(s.file, 64, get_headerdata(PyTo(s.file, 64)).idx_len)]

Buffered == buffer(Session)

----------------------------------------------------------------------------
(* L2DB.read *)

\* set_flag('+' name): the header is an immutable bytes object, so adding the
\* bit to header[18] raises TypeError; a flag that is already set is left alone
set_flag_plus(h, name) ==
    IF Flag(h, name) THEN [exc |-> "none", changed |-> FALSE]
    ELSE [exc |-> "TypeError", changed |-> FALSE]

\* set_flag('-' name): clearing a set bit of the bytes header raises TypeError
set_flag_minus(h, name) ==
    IF ~Flag(h, name) THEN [exc |-> "none", changed |-> FALSE]
    ELSE [exc |-> "TypeError", changed |-> FALSE]

\* the value a helper converted, not yet returned
Converted(r) == [exc |-> r.exc, ret |-> r.ret, final |-> FALSE]

\* the decoding of the raw value by the stored type tag (the match of read);
\* ret is what read returns when no vtype is asked for, final tells a return
\* taken inside the match, before the vtype conversion
decode_value(h, stored_type, rawvalue) ==
    CASE stored_type = TagRaw -> [exc |-> "none", ret |-> PyBytes(rawvalue), final |-> FALSE]
      [] stored_type = TagStr ->
            IF Decodes(rawvalue) THEN [exc |-> "none", ret |-> PyStr(bin2str(rawvalue)), final |-> FALSE]
            ELSE [exc |-> "UnicodeDecodeError", ret |-> PyNone, final |-> FALSE]
      [] stored_type \in {TagInt, TagUin, TagFlt, TagFpn} ->
            Converted(bin2num(rawvalue, stored_type))
      [] stored_type = TagBol ->
            IF rawvalue = <<>> THEN [exc |-> "IndexError", ret |-> PyNone, final |-> TRUE]
            ELSE IF rawvalue[1] = 0 THEN [exc |-> "none", ret |-> PyBool(FALSE), final |-> TRUE]
            ELSE IF rawvalue[1] = 1 THEN [exc |-> "none", ret |-> PyBool(TRUE), final |-> TRUE]
            ELSE [exc |-> set_flag_plus(h, "DIRTY").exc, ret |-> PyBool(TRUE), final |-> TRUE]
      [] stored_type = TagNul ->
            IF rawvalue = <<>> THEN [exc |-> "IndexError", ret |-> PyNone, final |-> TRUE]
            ELSE IF rawvalue[1] = 0 THEN [exc |-> "none", ret |-> PyNone, final |-> TRUE]
            ELSE [exc |-> set_flag_plus(h, "DIRTY").exc, ret |-> PyNone, final |-> TRUE]
      [] OTHER ->
            [exc |-> set_flag_plus(h, "DIRTY").exc, ret |-> PyBytes(rawvalue), final |-> FALSE]

\* what a read leaves: the exception it raises ("none" for a normal return),
\* the value it returns, the header and index it has buffered
ReadOutcome(exc, ret, b) == [exc |-> exc, ret |-> ret, header |-> b.header, index |-> b.index]

\* the end of read: a return from inside the match, the decoded value, or
\* the result of convert (a stub that returns None) when a vtype is given
read_return(vtype, b, dec) ==
    IF dec.exc # "none" THEN ReadOutcome(dec.exc, PyNone, b)
    ELSE IF dec.final \/ vtype = <<>> THEN ReadOutcome("none", dec.ret, b)
    ELSE ReadOutcome("none", PyNone, b)

\* the raw value is fetched at the value offsets vo, from the value block or,
\* in 'f' mode, from the file behind header and index
read_fetch(vtype, b, stype, vo) ==
    IF "f" \notin mode
    THEN read_return(vtype, b, decode_value(b.header, stype, PySlice(values, vo[1], vo[2])))
    ELSE IF vo[2] - vo[1] < -1 THEN ReadOutcome("ValueError", PyNone, b)
    ELSE read_return(vtype, b,
            decode_value(b.header, stype,
                FileRead(file, 64 + Len(b.index) + vo[1], vo[2] - vo[1])))

\* stype is the slice of the index taken for the stored type, offb the first
\* 8 (or 16) bytes of the slice taken for the entry
read_entry(vtype, b, wide, stype, offb) ==
    IF ~Decodes(stype) THEN ReadOutcome("UnicodeDecodeError", PyNone, b)
    ELSE IF Len(offb) # validx_size(wide) THEN ReadOutcome("struct.error", PyNone, b)
    ELSE read_fetch(vtype, b, bin2str(stype), unpack_offsets(offb, wide))

\* read_lookup without the test of the offsets get_keyoffset returned
read_lookup_unchecked(key, vtype, b, wide, ko) ==
    IF ko.exc # "none" THEN ReadOutcome(ko.exc, PyNone, b)
    ELSE read_entry(vtype, b, wide,
            PySlice(b.index, ko.offs[2] - (Len(key) + 1) - 3, ko.offs[2] - (Len(key) + 1)),
            PyTo(PySlice(b.index, ko.offs[1], ko.offs[2]), validx_size(wide)))

\* ko is what get_keyoffset returned; its two offsets are used as the bounds
\* of the entry inside the index block
read_lookup(key, vtype, b, wide, ko) ==
    IF ko.exc # "none" THEN ReadOutcome(ko.exc, PyNone, b)
    ELSE IF ko.offs[1] < 0 \/ ko.offs[2] < 0 THEN ReadOutcome("L2DBKeyError", PyNone, b)
    ELSE read_entry(vtype, b, wide,
            PySlice(b.index, ko.offs[2] - (Len(key) + 1) - 3, ko.offs[2] - (Len(key) + 1)),
            PyTo(PySlice(b.index, ko.offs[1], ko.offs[2]), validx_size(wide)))

read_buffered(key, vtype, b) ==
    IF b.exc # "none" THEN ReadOutcome(b.exc, PyNone, b)
    ELSE read_lookup(key, vtype, b, Flag(b.header, "X64_INDEXES"),
                get_keyoffset(key, b.index, Flag(b.header, "X64_INDEXES")))

\* read without the test of the open mode
read_any_mode(key, vtype) == read_buffered(key, vtype, Buffered)

\* L2DB.read(key, vtype) on the current state; vtype = <<>> stands for None
read(key, vtype) ==
    IF "r" \notin mode
    THEN ReadOutcome("L2DBError: write-only", PyNone, [header |-> header, index |-> index])
    ELSE read_buffered(key, vtype, Buffered)

----------------------------------------------------------------------------
(* L2DB.write *)

\* an index entry: offsets, type tag, key name, 0x00
Entry(vs, ve, tag, key, wide) ==
    (IF wide THEN pack_Q(vs) \o pack_Q(ve) ELSE pack_I(vs) \o pack_I(ve))
    \o str2bin(tag) \o str2bin(key) \o <<0>>

\* num2bin(value) left valbin None: the int lies outside 64 signed bits
valbin_none(value) == IsLong(value) /\ num2bin_long(LongOf(value), FALSE).ty = "NoneType"

\* the bytes write stores for a value: bytes and text as they are, an int by
\* num2bin, nothing (with a warning) for every other type
valbin_of(value) ==
    CASE value.ty = "bytes" -> value.b
      [] value.ty = "str"   -> str2bin(value.b)
      [] value.ty = "int"   -> IF IsLong(value) THEN num2bin_long(LongOf(value), FALSE).b
                               ELSE num2bin(value.n)
      [] OTHER              -> <<>>

\* the tags a vtype may retag an entry to
RetagTypes == {TagInt, TagUin, TagFlt, TagFpn, TagBol, TagStr, TagRaw, TagNul}

\* the value block after the in-place store: valbin laid over the bytes from
\* voffsets[0] on
store_value(vals, v0, valbin) ==
    PyTo(vals, v0) \o valbin \o PyFrom(vals, v0 + Len(valbin))

\* the index block after the update of a shortened value: the block up to
\* 64+keyoffsets[0]+8, the packed voffsets[1], and the block from
\* 64+keyoffsets[0]+(8 or 4)+len(valbin) on
store_index(idx, k0, v1, n, wide) ==
    PyTo(idx, 64 + k0 + 8)
    \o (IF wide THEN pack_Q(v1) ELSE pack_I(v1))
    \o PyFrom(idx, 64 + k0 + (IF wide THEN 8 ELSE 4) + n)

\* the file after the unbuffered update of a shortened value: the new end
\* offset written at file offset 64+keyoffsets[0]+(8 or 4)
store_file_index(f, k0, v0, v1, n, wide) ==
    overwrite_in_file(f, 64 + k0 + (IF wide THEN 8 ELSE 4),
        IF wide THEN pack_Q(v1 - ((v1 - v0) - n)) ELSE pack_I(v1 - ((v1 - v0) - n)))

\* the file after the unbuffered store: valbin at file offset voffsets[0]
store_file(f, k0, v0, v1, valbin, wide) ==
    IF Len(valbin) < v1 - v0
    THEN store_file_index(overwrite_in_file(f, v0, valbin), k0, v0, v1, Len(valbin), wide)
    ELSE overwrite_in_file(f, v0, valbin)

\* what a write leaves: the exception it raises ("none" for a normal return),
\* the header and index it has buffered, the value block and the file
WriteOutcome(exc, b, vals, f) ==
    [exc |-> exc, header |-> b.header, index |-> b.index, values |-> vals, file |-> f]

\* the store itself: only a value that fits the range voffsets is stored
write_store(s, b, wide, k0, vo, valbin) ==
    IF Len(valbin) <= vo[2] - vo[1]
    THEN IF "f" \notin s.mode
         THEN WriteOutcome("none",
                  [b EXCEPT !.index = IF Len(valbin) < vo[2] - vo[1]
                                      THEN store_index(b.index, k0, vo[2], Len(valbin), wide)
                                      ELSE b.index],
                  store_value(s.values, vo[1], valbin), s.file)
         ELSE WriteOutcome("none", b, s.values, store_file(s.file, k0, vo[1], vo[2], valbin, wide))
    ELSE WriteOutcome("none", b, s.values, s.file)

\* write_entry taking the None of num2bin for an empty valbin
write_entry_none_empty(s, value, vtype, b, wide, k0, stype, offb) ==
    IF ~Decodes(stype) THEN WriteOutcome("UnicodeDecodeError", b, s.values, s.file)
    ELSE IF Len(offb) # validx_size(wide) THEN WriteOutcome("struct.error", b, s.values, s.file)
    ELSE IF vtype # <<>> /\ vtype # bin2str(stype) /\ vtype \in RetagTypes
    THEN WriteOutcome("TypeError", b, s.values, s.file)
    ELSE write_store(s, b, wide, k0, unpack_offsets(offb, wide), valbin_of(value))

\* stype is the slice of the index taken for the stored type, offb the first
\* 8 (or 16) bytes of the entry; a vtype other than the stored type is
\* assigned into the index block, a bytes object, which raises TypeError;
\* so does len(valbin) of the None num2bin returned
write_entry(s, value, vtype, b, wide, k0, stype, offb) ==
    IF ~Decodes(stype) THEN WriteOutcome("UnicodeDecodeError", b, s.values, s.file)
    ELSE IF Len(offb) # validx_size(wide) THEN WriteOutcome("struct.error", b, s.values, s.file)
    ELSE IF vtype # <<>> /\ vtype # bin2str(stype) /\ vtype \in RetagTypes
    THEN WriteOutcome("TypeError", b, s.values, s.file)
    ELSE IF valbin_none(value) THEN WriteOutcome("TypeError", b, s.values, s.file)
    ELSE write_store(s, b, wide, k0, unpack_offsets(offb, wide), valbin_of(value))

\* keyoffsets (k0, k1): the two numbers get_keyoffset returned for a key it
\* found, else the end of the index block and the end of a new entry there;
\* the entry is the index slice between them for a key found, else built new
write_keyoffsets(s, key, value, vtype, b, wide, found, k0, k1) ==
    write_entry(s, value, vtype, b, wide, k0,
        PySlice(b.index, k1 - (Len(key) + 1) - 3, k1 - (Len(key) + 1)),
        PyTo(IF found THEN PySlice(b.index, k0, k1)
             ELSE Entry(k0, k1, IF vtype # <<>> THEN vtype ELSE get_type(value), key, wide),
             validx_size(wide)))

write_lookup(s, key, value, vtype, b, wide, ko) ==
    IF ko.exc # "none" THEN WriteOutcome(ko.exc, b, s.values, s.file)
    ELSE IF ko.offs[1] < 0 \/ ko.offs[2] < 0
    THEN write_keyoffsets(s, key, value, vtype, b, wide, FALSE, Len(b.index),
             Len(b.index) + (IF wide THEN 16 + 3 ELSE 8 + 3) + Len(key) + 1)
    ELSE write_keyoffsets(s, key, value, vtype, b, wide, TRUE, ko.offs[1], ko.offs[2])

\* get_keyoffset takes the offset width from the header buffered before it
\* reads header and index again; the rest of write takes it from the new one
write_buffered(s, key, value, vtype, wide0, b) ==
    IF b.exc # "none" THEN WriteOutcome(b.exc, b, s.values, s.file)
    ELSE write_lookup(s, key, value, vtype, b, Flag(b.header, "X64_INDEXES"),
                 get_keyoffset(key, b.index, wide0))

\* write with its two guards in the other order: the open mode is looked at
\* before the DIRTY flag
write_mode_first(s, key, value, vtype) ==
    IF "w" \notin s.mode
    THEN WriteOutcome("L2DBError: read-only", s, s.values, s.file)
    ELSE IF Flag(s.header, "DIRTY")
    THEN WriteOutcome("L2DBIsDirty", s, s.values, s.file)
    ELSE write_buffered(s, key, value, vtype, Flag(s.header, "X64_INDEXES"), buffer(s))

\* L2DB.write(key, value, vtype) on session s; vtype = <<>> stands for None
write_session(s, key, value, vtype) ==
    IF Flag(s.header, "DIRTY")
    THEN WriteOutcome("L2DBIsDirty", s, s.values, s.file)
    ELSE IF "w" \notin s.mode
    THEN WriteOutcome("L2DBError: read-only", s, s.values, s.file)
    ELSE write_buffered(s, key, value, vtype, Flag(s.header, "X64_INDEXES"), buffer(s))

\* L2DB.write(key, value, vtype) on the current state
write(key, value, vtype) == write_session(Session, key, value, vtype)

----------------------------------------------------------------------------
(* L2DB.cleanup, L2DB.delete *)

\* L2DB.cleanup(only_flag, dont_rescue): nothing but set_flag('-DIRTY'),
\* whatever the two arguments
cleanup(only_flag, dont_rescue) ==
    [exc |-> set_flag_minus(header, "DIRTY").exc, header |-> header]

\* L2DB.delete(key): the body is a bare ellipsis; it returns None and changes
\* nothing
delete(key) == [exc |-> "none", index |-> index]

\* L2DB.dump(): the body is a bare ellipsis; it returns None whatever the
\* session holds
dump(s) == PyNone

\* L2DB.dumpbin(): header, index block and value block joined, or in 'f' mode
\* the whole file
dumpbin(s) == IF "f" \notin s.mode THEN s.header \o s.index \o s.values ELSE s.file

----------------------------------------------------------------------------
(* The legacy engine of src/l2db2.py *)

\* the second magic eval_db accepts, b'\x88L2020DB'
Magic2020 == <<136, 76, 50, 48, 50, 48, 68, 66>>

\* the two header tests at the head of L2DB.eval_db of l2db2: the exception
\* it raises there, "none" if it goes on to read the database
l2db2_eval_db(database, strict) ==
    IF strict /\ PyTo(database, 8) \notin {Magic, Magic2020} THEN "L2DBSyntaxError"
    ELSE IF strict /\ database[9] # 2 THEN "L2DBError: Incompatible file version"
    ELSE "none"

----------------------------------------------------------------------------
(* Sources and L2DB.open *)

KeyA == <<97>>
KeyB == <<98>>

\* the text 'x' * n
Text(n) == [i \in 1..n |-> 120]

\* a serialized database: header, index block, value block
Database(flags, idx, vals) == new_header(SpecVersion, Len(idx), flags) \o idx \o vals

\* two entries laid out as the format describes, the values packed back to
\* back: a = 'abc', b = a boolean stored as the byte 0x02
SrcPacked(flags) ==
    Database(flags,
        Entry(0, 3, TagStr, KeyA, FALSE) \o Entry(3, 4, TagBol, KeyB, FALSE),
        <<97, 98, 99, 2>>)

\* two entries whose value ranges are as long as an index entry (13 bytes):
\* a = 'm' * 13, b = a boolean stored as 0x02 followed by twelve more bytes
SrcSpan(flags) ==
    Database(flags,
        Entry(0, 13, TagStr, KeyA, FALSE) \o Entry(13, 26, TagBol, KeyB, FALSE),
        [i \in 1..13 |-> 109] \o <<2>> \o [i \in 1..12 |-> 110])

\* one entry with 8-byte offsets (X64_INDEXES), its range as long as the
\* entry (21 bytes)
SrcWide(flags) ==
    Database(flags + flagbits({"X64_INDEXES"}),
        Entry(0, 21, TagStr, KeyA, TRUE),
        [i \in 1..21 |-> 109])

\* an empty database, as open() builds it for the mapping {}
SrcEmpty(flags) == Database(flags, <<>>, <<>>)

Sources ==
    UNION {{SrcPacked(f), SrcSpan(f), SrcWide(f), SrcEmpty(f)} : f \in {0, flagbits({"DIRTY"})}}

Keys == {KeyA, KeyB}

Values == {PyStr(<<233>>), PyStr(Text(13)), PyStr(Text(14)), PyInt(42), PyBool(TRUE)}

VTypes == {<<>>, TagStr}

\* the mode strings open() is called with: 'rw', 'r', 'w' and, for a file, 'rwf'
Modes == {{"r", "w"}, {"r"}, {"w"}, {"r", "w", "f"}}

\* a mapping: the sequence of its <<key, value>> items, in insertion order
PyDict(items) == [ty |-> "dict", b |-> items, n |-> 0]

\* the loop of open() over the items of a mapping: self.write(key, value) for
\* each item in turn on session s; an exception of write ends the loop and
\* leaves open() and the constructor
RECURSIVE open_items(_, _)
open_items(s, items) ==
    IF items = <<>> THEN [exc |-> "none", session |-> s]
    ELSE LET r == write_session(s, items[1][1], items[1][2], <<>>)
         IN  IF r.exc # "none" THEN [exc |-> r.exc, session |-> s]
             ELSE open_items([header |-> r.header, index |-> r.index, values |-> r.values,
                              mode |-> s.mode, file |-> r.file], Tail(items))

\* the case 'dict' of open(): a new empty database, then the loop over items
open_dict(items, m) ==
    open_items([header |-> new_header(SpecVersion, 0, 0), index |-> <<>>, values |-> <<>>,
                mode |-> m \cap {"r", "w"}, file |-> <<>>], items)

\* L2DB(source, mode): the session open() leaves and the exception it raises
\* ("none" if it returns).  kind is the type of the source: "dict" (src the
\* items of a mapping), "bytes" (src a serialized database) or "str" (the path
\* of a file holding the bytes src)
open(kind, src, m) ==
    CASE kind = "dict" ->
            [exc |-> open_dict(src, m).exc,
             header |-> open_dict(src, m).session.header,
             index |-> open_dict(src, m).session.index,
             values |-> open_dict(src, m).session.values,
             mode |-> m \cap {"r", "w"}, file |-> <<>>, fileref |-> "None"]
      [] kind = "bytes" ->
            [exc |-> "none",
             header |-> PyTo(src, 64),
             index |-> PySlice(src, 64, 64 + get_headerdata(PyTo(src, 64)).idx_len),
             values |-> PyFrom(src, 64 + get_headerdata(PyTo(src, 64)).idx_len),
             mode |-> m \cap {"r", "w"}, file |-> <<>>, fileref |-> "None"]
      [] kind = "str" ->
            IF "f" \in m
            THEN [exc |-> "none",
                  header |-> FileRead(src, 0, 64), index |-> <<>>, values |-> <<>>,
                  mode |-> m, file |-> src,
                  fileref |-> IF "w" \in m THEN "open" ELSE "open rb"]
            ELSE [exc |-> "none",
                  header |-> FileRead(src, 0, 64),
                  index |-> FileRead(src, 64, get_headerdata(PyTo(src, 64)).idx_len),
                  values |-> FileRead(src, 64 + get_headerdata(PyTo(src, 64)).idx_len, -1),
                  mode |-> m, file |-> src, fileref |-> "None"]

NoCall == [op |-> "open", key |-> <<>>, val |-> PyNone, vtype |-> <<>>,
           exc |-> "none", ret |-> PyNone]

InitFrom(kind, src, m) ==
    \E o \in {open(kind, src, m)} :
        /\ header = o.header
        /\ index = o.index
        /\ values = o.values
        /\ mode = o.mode
        /\ file = o.file
        /\ fileref = o.fileref
        /\ result = NoCall
        /\ ncalls = 0

Init ==
    \E m \in Modes :
        \/ "f" \notin m /\ InitFrom("dict", <<>>, m)
        \/ "f" \notin m /\ \E src \in Sources : InitFrom("bytes", src, m)
        \/ "f" \in m /\ \E src \in Sources : InitFrom("str", src, m)

----------------------------------------------------------------------------
(* The calls *)

WriteCall(key, value, vtype) ==
    \E r \in {write(key, value, vtype)} :
        /\ header' = r.header
        /\ index' = r.index
        /\ values' = r.values
        /\ file' = r.file
        /\ result' = [op |-> "write", key |-> key, val |-> value, vtype |-> vtype,
                      exc |-> r.exc, ret |-> PyNone]
        /\ ncalls' = ncalls + 1
        /\ UNCHANGED <<mode, fileref>>

ReadCall(key, vtype) ==
    \E r \in {read(key, vtype)} :
        /\ header' = r.header
        /\ index' = r.index
        /\ result' = [op |-> "read", key |-> key, val |-> PyNone, vtype |-> vtype,
                      exc |-> r.exc, ret |-> r.ret]
        /\ ncalls' = ncalls + 1
        /\ UNCHANGED <<values, mode, file, fileref>>

CleanupCall(only_flag) ==
    \E r \in {cleanup(only_flag, FALSE)} :
        /\ header' = r.header
        /\ result' = [op |-> IF only_flag THEN "cleanup(only_flag)" ELSE "cleanup",
                      key |-> <<>>, val |-> PyNone, vtype |-> <<>>,
                      exc |-> r.exc, ret |-> PyNone]
        /\ ncalls' = ncalls + 1
        /\ UNCHANGED <<index, values, mode, file, fileref>>

DeleteCall(key) ==
    \E r \in {delete(key)} :
        /\ index' = r.index
        /\ result' = [op |-> "delete", key |-> key, val |-> PyNone, vtype |-> <<>>,
                      exc |-> r.exc, ret |-> PyNone]
        /\ ncalls' = ncalls + 1
        /\ UNCHANGED <<header, values, mode, file, fileref>>

Next ==
    \/ \E k \in Keys, v \in Values, t \in VTypes : ncalls < MaxCalls /\ WriteCall(k, v, t)
    \/ \E k \in Keys, t \in VTypes : ncalls < MaxCalls /\ ReadCall(k, t)
    \/ \E f \in BOOLEAN : ncalls < MaxCalls /\ CleanupCall(f)
    \/ \E k \in Keys : ncalls < MaxCalls /\ DeleteCall(k)

Spec == Init /\ [][Next]_vars

\* Long runs of plain writes, write(key, value) without a vtype, on a
\* buffered session opened 'rw' on the mapping {} or on the clean two-entry
\* database SrcSpan
RunValues == {PyStr(Text(1)), PyInt(42)}

InitRun ==
    \/ InitFrom("dict", <<>>, {"r", "w"})
    \/ InitFrom("bytes", SrcSpan(0), {"r", "w"})

NextRun == \E k \in Keys, v \in RunValues : ncalls < MaxRun /\ WriteCall(k, v, <<>>)

SpecRun == InitRun /\ [][NextRun]_vars

\* Sessions as open() leaves them, for mappings and for serialized databases
\* with a foreign magic or major version, and the calls that look at them

\* the mapping {"hello": "world", "n": 42, "flag": True}
HelloMap ==
    << <<(<<104, 101, 108, 108, 111>>), PyStr(<<119, 111, 114, 108, 100>>)>>,
       <<(<<110>>), PyInt(42)>>,
       <<(<<102, 108, 97, 103>>), PyBool(TRUE)>> >>

Mappings == {<<>>, <<(<<KeyA, PyStr(Text(1))>>)>>, HelloMap}

\* SrcSpan with the magic b'XL2DB\0\0\0'
SrcBadMagic == <<88>> \o Tail(SrcSpan(0))

\* SrcSpan with the spec version 3.0.0 in its header
SrcMajor3 == new_header(<<3, 0, 0>>, 26, 0) \o PyFrom(SrcSpan(0), 64)

\* SrcSpan with the index length bytes ff ff ff ff in its header, which
\* get_headerdata unpacks as the signed number -1
SrcNegLen == new_header(SpecVersion, -1, 0) \o PyFrom(SrcSpan(0), 64)

OpenSources == {SrcSpan(0), SrcBadMagic, SrcMajor3, SrcNegLen}

\* the state L2DB(source, mode) leaves, the source and the exception of the
\* constructor kept in result
InitOpenFrom(kind, src, m) ==
    \E o \in {open(kind, src, m)} :
        /\ header = o.header
        /\ index = o.index
        /\ values = o.values
        /\ mode = o.mode
        /\ file = o.file
        /\ fileref = o.fileref
        /\ result = [NoCall EXCEPT !.val = IF kind = "dict" THEN PyDict(src) ELSE PyBytes(src),
                                   !.exc = o.exc]
        /\ ncalls = 0

InitOpen ==
    \E m \in Modes :
        \/ "f" \notin m /\ \E items \in Mappings : InitOpenFrom("dict", items, m)
        \/ "f" \notin m /\ \E src \in OpenSources : InitOpenFrom("bytes", src, m)
        \/ "f" \in m /\ \E src \in OpenSources : InitOpenFrom("str", src, m)

\* the constructor returned an object
Constructed == result.op = "open" => result.exc = "none"

DumpCall ==
    /\ result' = [op |-> "dump", key |-> <<>>, val |-> PyNone, vtype |-> <<>>,
                  exc |-> "none", ret |-> dump(Session)]
    /\ ncalls' = ncalls + 1
    /\ UNCHANGED <<header, index, values, mode, file, fileref>>

DumpbinCall ==
    /\ result' = [op |-> "dumpbin", key |-> <<>>, val |-> PyNone, vtype |-> <<>>,
                  exc |-> "none", ret |-> PyBytes(dumpbin(Session))]
    /\ ncalls' = ncalls + 1
    /\ UNCHANGED <<header, index, values, mode, file, fileref>>

\* the values written: a text, a small int, the ints 2^63 and -2^63-1 just
\* outside the signed 64-bit range, the booleans and None
OpenValues ==
    RunValues \cup {PyLong(Long(FALSE, Pow2(63))), PyLong(Long(TRUE, Incr(Pow2(63)))),
                    PyBool(TRUE), PyBool(FALSE), PyNone}

NextOpen ==
    \/ ncalls < MaxOpenCalls /\ Constructed /\ DumpCall
    \/ ncalls < MaxOpenCalls /\ Constructed /\ DumpbinCall
    \/ \E k \in Keys : ncalls < MaxOpenCalls /\ Constructed /\ ReadCall(k, <<>>)
    \/ \E k \in Keys, v \in OpenValues :
            ncalls < MaxOpenCalls /\ Constructed /\ WriteCall(k, v, <<>>)

SpecOpen == InitOpen /\ [][NextOpen]_vars

----------------------------------------------------------------------------
(* The helpers num2bin, bin2num, new_header and get_headerdata on their own *)

\* how far around each power of two the integers given to the codec reach
Near == 2

RECURSIVE IncrBy(_, _)
IncrBy(b, k) == IF k = 0 THEN b ELSE IncrBy(Incr(b), k - 1)

RECURSIVE DecrBy(_, _)
DecrBy(b, k) == IF k = 0 THEN b ELSE DecrBy(Decr(b), k - 1)

\* the magnitude 2^e + d
Pow2Plus(e, d) ==
    IF d >= 0 THEN Strip(IncrBy(<<0>> \o Pow2(e), d)) ELSE Strip(DecrBy(Pow2(e), -d))

\* the ints within Near of 0 and of plus or minus 2^7, 2^8, 2^15, 2^16, 2^31,
\* 2^32, 2^63 and 2^64, where num2bin changes width or gives up
Exponents == {7, 8, 15, 16, 31, 32, 63, 64}
Numbers ==
    {Long(neg, Strip(<<k>>)) : neg \in BOOLEAN, k \in 0..Near}
        \cup {Long(neg, Pow2Plus(e, d)) : neg \in BOOLEAN, e \in Exponents, d \in -Near..Near}

\* version texts, index lengths and flag bytes given to new_header
Versions ==
    {spec_ver_format(t) : t \in {<<2, 0, 0>>, <<0, 0, 0>>, <<1, 2, 3>>, <<65535, 0, 1>>,
                                 <<10, 100, 1000>>, <<65535, 65535, 65535>>, <<65536, 0, 0>>}}
IndexLengths ==
    {Long(FALSE, <<>>), Long(FALSE, <<26>>)}
        \cup {Long(FALSE, Pow2Plus(e, d)) : e \in {31, 32}, d \in -Near..Near}
FlagBytes == 0..8

\* a call of a helper: its name, its arguments, what it raised and returned
HelperCall(op, args, exc, ret) == [op |-> op, args |-> args, exc |-> exc, ret |-> ret]

InitCodec ==
    /\ header = new_header(SpecVersion, 0, 0)
    /\ index = <<>> /\ values = <<>> /\ file = <<>>
    /\ mode = {"r", "w"} /\ fileref = FALSE
    /\ ncalls = 0
    /\ \/ \E n \in Numbers, unsigned \in BOOLEAN :
            result = HelperCall("int", [n |-> n, unsigned |-> unsigned], "none", PyNone)
       \/ \E v \in Versions, l \in IndexLengths, f \in FlagBytes :
            result = HelperCall("header", [spec_ver |-> v, index_len |-> l, flags |-> f],
                                "none", PyNone)

Num2binCall ==
    /\ result.op = "int"
    /\ result' = HelperCall("num2bin", result.args, "none",
                            num2bin_long(result.args.n, result.args.unsigned))
    /\ ncalls' = ncalls + 1
    /\ UNCHANGED <<header, index, values, mode, file, fileref>>

\* bin2num of what num2bin returned, as 'uin' for an unsigned and as 'int'
\* for a signed encoding
Bin2numCall ==
    /\ result.op = "num2bin"
    /\ \E r \in {bin2num_long(result.ret, IF result.args.unsigned THEN TagUin ELSE TagInt)} :
            result' = HelperCall("bin2num", result.args, r.exc, r.ret)
    /\ ncalls' = ncalls + 1
    /\ UNCHANGED <<header, index, values, mode, file, fileref>>

NewHeaderCall ==
    /\ result.op = "header"
    /\ \E r \in {new_header_str(result.args.spec_ver, result.args.index_len, result.args.flags)} :
            result' = HelperCall("new_header", result.args, r.exc, r.ret)
    /\ ncalls' = ncalls + 1
    /\ UNCHANGED <<header, index, values, mode, file, fileref>>

\* get_headerdata of the header new_header returned
GetHeaderdataCall ==
    /\ result.op = "new_header" /\ result.exc = "none"
    /\ result' = HelperCall("get_headerdata", result.args, "none", get_headerdata(result.ret.b))
    /\ ncalls' = ncalls + 1
    /\ UNCHANGED <<header, index, values, mode, file, fileref>>

NextCodec == Num2binCall \/ Bin2numCall \/ NewHeaderCall \/ GetHeaderdataCall

SpecCodec == InitCodec /\ [][NextCodec]_vars

----------------------------------------------------------------------------
(* L2DB.flush, the context manager and the disposal of a session *)

\* how many calls are made on a session before it is left alone
MaxLifeCalls == 3

\* L2DB.flush() without a target on session s whose file object is fr.  The
\* calls made on the file object are listed in handle.  No file object: nothing
\* happens.  A closed one: seek raises ValueError.  An open one: seek(0), then
\* dumpbin() (which in 'f' mode seeks and reads the file to its end), then
\* write at the position reached, which a file opened 'rb' refuses, then flush
flush(s, fr) ==
    IF fr = "None" THEN [exc |-> "none", file |-> s.file, handle |-> <<>>]
    ELSE IF fr = "closed" THEN [exc |-> "ValueError", file |-> s.file, handle |-> <<"seek">>]
    ELSE IF fr = "open rb"
    THEN [exc |-> "UnsupportedOperation", file |-> s.file,
          handle |-> <<"seek">> \o (IF "f" \in s.mode THEN <<"seek", "read">> ELSE <<>>)
                        \o <<"write">>]
    ELSE [exc |-> "none",
          file |-> overwrite_in_file(s.file, IF "f" \in s.mode THEN Len(s.file) ELSE 0, dumpbin(s)),
          handle |-> <<"seek">> \o (IF "f" \in s.mode THEN <<"seek", "read">> ELSE <<>>)
                        \o <<"write", "flush">>]

\* L2DB.__delete__(instance), which __del__ calls: flush(), then close() of
\* the file object if there is one
dispose(s, fr) ==
    IF flush(s, fr).exc # "none"
    THEN [exc |-> flush(s, fr).exc, file |-> s.file, fileref |-> fr, handle |-> flush(s, fr).handle]
    ELSE [exc |-> "none", file |-> flush(s, fr).file,
          fileref |-> IF fr = "None" THEN "None" ELSE "closed",
          handle |-> flush(s, fr).handle \o (IF fr = "None" THEN <<>> ELSE <<"close">>)]

\* the session __exit__ leaves behind before it calls __del__: source None,
\* mode '', empty header, index and values
Cleared(f) == [header |-> <<>>, index |-> <<>>, values |-> <<>>, mode |-> {}, file |-> f]

\* L2DB.__exit__(err_type, ...) with err the exception raised in the block
\* ("none" if none): flush() with its exception caught and printed, the
\* session cleared, __del__(), and True returned if err was passed.  exc is
\* what leaves the with statement
exit_session(s, fr, err) ==
    [exc     |-> dispose(Cleared(flush(s, fr).file), fr).exc,
     ret     |-> IF dispose(Cleared(flush(s, fr).file), fr).exc = "none" /\ err # "none"
                 THEN PyBool(TRUE) ELSE PyNone,
     file    |-> dispose(Cleared(flush(s, fr).file), fr).file,
     fileref |-> dispose(Cleared(flush(s, fr).file), fr).fileref,
     handle  |-> flush(s, fr).handle \o dispose(Cleared(flush(s, fr).file), fr).handle]

\* a call of the life cycle: raised is the exception that was under way when
\* it was made, handle the calls it made on the file object
LifeCall(op, raised, exc, ret, handle) ==
    [op |-> op, key |-> <<>>, val |-> PyNone, vtype |-> <<>>,
     exc |-> exc, ret |-> ret, raised |-> raised, handle |-> handle]

\* the session is in use: constructed, not left by a with block, not disposed
\* of and not collected
Live == result.exc # "no object" /\ header # <<>> /\ fileref # "closed" /\ result.op # "gc"

FlushCall ==
    /\ \E r \in {flush(Session, fileref)} :
            /\ file' = r.file
            /\ result' = LifeCall("flush", "none", r.exc, PyNone, r.handle)
    /\ ncalls' = ncalls + 1
    /\ UNCHANGED <<header, index, values, mode, fileref>>

\* the end of a with block on the session, err being the exception that
\* leaves the block
ExitCall(err) ==
    /\ \E r \in {exit_session(Session, fileref, err)} :
            /\ file' = r.file
            /\ fileref' = r.fileref
            /\ result' = LifeCall("__exit__", err, IF r.exc # "none" THEN r.exc ELSE
                                  IF r.ret = PyBool(TRUE) THEN "none" ELSE err, r.ret, r.handle)
    /\ header' = <<>> /\ index' = <<>> /\ values' = <<>> /\ mode' = {}
    /\ ncalls' = ncalls + 1

\* db.__del__() called by the program
DelCall ==
    /\ \E r \in {dispose(Session, fileref)} :
            /\ file' = r.file
            /\ fileref' = r.fileref
            /\ result' = LifeCall("__del__", "none", r.exc, PyNone, r.handle)
    /\ ncalls' = ncalls + 1
    /\ UNCHANGED <<header, index, values, mode>>

\* __del__ called when the object is collected; its exception is printed and
\* ignored
GcCall ==
    /\ \E r \in {dispose(Session, fileref)} :
            /\ file' = r.file
            /\ fileref' = r.fileref
            /\ result' = LifeCall("gc", "none", "none", PyNone, r.handle)
    /\ ncalls' = ncalls + 1
    /\ UNCHANGED <<header, index, values, mode>>

\* the text 'r' * 13: its bytes have the DIRTY bit (2) set
TextR == [i \in 1..13 |-> 114]

LifeValues == {PyStr(Text(13)), PyStr(TextR)}

\* sessions on the path of a file holding SrcSpan, clean or dirty, buffered
\* or unbuffered, and sessions without a file
InitLife ==
    \/ \E m \in {{"r", "w"}, {"r", "w", "f"}, {"r", "f"}}, d \in {0, 2} :
            InitOpenFrom("str", SrcSpan(d), m)
    \/ InitOpenFrom("bytes", SrcSpan(0), {"r", "w"})
    \/ InitOpenFrom("dict", <<>>, {"r", "w"})

NextLife ==
    \/ \E k \in Keys, v \in LifeValues : ncalls < MaxLifeCalls /\ Live /\ WriteCall(k, v, <<>>)
    \/ \E k \in Keys : ncalls < MaxLifeCalls /\ Live /\ ReadCall(k, <<>>)
    \/ \E k \in Keys : ncalls < MaxLifeCalls /\ Live /\ DeleteCall(k)
    \/ ncalls < MaxLifeCalls /\ Live /\ DumpCall
    \/ ncalls < MaxLifeCalls /\ Live /\ DumpbinCall
    \/ ncalls < MaxLifeCalls /\ Live /\ FlushCall
    \/ ncalls < MaxLifeCalls /\ Live /\ ExitCall("none")
    \/ ncalls < MaxLifeCalls /\ Live /\ result.exc # "none" /\ ExitCall(result.exc)
    \/ ncalls < MaxLifeCalls /\ Live /\ DelCall
    \/ ncalls < MaxLifeCalls /\ result.op # "gc" /\ GcCall

SpecLife == InitLife /\ [][NextLife]_vars

----------------------------------------------------------------------------
(* The stored database as the format lays it out *)

Dirty == Flag(header, "DIRTY")

Wide == Flag(Buffered.header, "X64_INDEXES")

\* the index block and the value block of the session: the buffered ones,
\* or in 'f' mode the ones in the file
StoredIndex == Buffered.index

StoredValues == IF "f" \in mode THEN PyFrom(file, 64 + Len(Buffered.index)) ELSE values

\* the entries of an index block named key, in index order
EntriesOf(idx, wide, key) == SelectSeq(Entries(idx, wide), LAMBDA e : e.name = str2bin(key))

\* the entries of an index block not named key, in index order
OtherEntries(idx, wide, key) == SelectSeq(Entries(idx, wide), LAMBDA e : e.name # str2bin(key))

\* the bytes of the value block in an entry's range [value_start, value_end)
StoredBytes(vals, e) == PySlice(vals, e.offs[1], e.offs[2])

\* an entry without the index offset it starts at, with its stored bytes
Binding(vals, e) == [name |-> e.name, tag |-> e.tag, offs |-> e.offs, bytes |-> StoredBytes(vals, e)]

Bindings(vals, es) == [i \in 1..Len(es) |-> Binding(vals, es[i])]

\* the stored bytes of an entry break the encoding rule of its type tag
Anomalous(vals, e) ==
    \/ e.tag = TagBol /\ StoredBytes(vals, e) \notin {<<0>>, <<1>>}
    \/ e.tag = TagNul /\ StoredBytes(vals, e) # <<0>>
    \/ e.tag \notin {TagRaw, TagStr, TagInt, TagUin, TagFlt, TagFpn, TagBol, TagNul}

\* the best-effort value of an anomalous entry
BestEffort(vals, e) ==
    CASE e.tag = TagBol -> PyBool(TRUE)
      [] e.tag = TagNul -> PyNone
      [] OTHER          -> PyBytes(StoredBytes(vals, e))

----------------------------------------------------------------------------
(* The claims *)

\* C1: whenever the header's DIRTY flag is set, write(key, value) fails with
\* the dirty-database error (L2DBIsDirty), for every key and value, and
\* leaves header, index block and value block (and the file) unchanged
C1_DirtyWriteRejected ==
    [][(Dirty /\ result'.op = "write")
        => /\ result'.exc = "L2DBIsDirty"
           /\ header' = header /\ index' = index /\ values' = values /\ file' = file]_vars

\* a write was refused on a dirty session opened for writing
C1_Witness ==
    Dirty /\ "w" \in mode /\ result.op = "write" /\ result.exc = "L2DBIsDirty"

\* the first entry named key, the one a lookup of key finds
Lookup(idx, wide, key) == Head(EntriesOf(idx, wide, key))

\* key is present in the stored index
Present(key) == EntriesOf(StoredIndex, Wide, key) # <<>>

\* the step is a call of op on a session that is clean and open for writing
CleanCall(op) == result'.op = op /\ ncalls' = ncalls + 1 /\ ~Dirty /\ "w" \in mode

\* C2: read(key) of an entry whose stored bytes break the encoding rule of
\* its type (a boolean byte other than 0x00/0x01, a null byte other than
\* 0x00, an unrecognized type tag) does not raise, returns the best-effort
\* value (True, None, the raw bytes), and leaves the DIRTY flag set
C2_AnomalousReadBestEffort ==
    [][(/\ result'.op = "read" /\ ncalls' = ncalls + 1
        /\ result'.vtype = <<>> /\ "r" \in mode
        /\ Present(result'.key)
        /\ Anomalous(StoredValues, Lookup(StoredIndex, Wide, result'.key)))
        => /\ result'.exc = "none"
           /\ result'.ret = BestEffort(StoredValues, Lookup(StoredIndex, Wide, result'.key))
           /\ Flag(header', "DIRTY")]_vars

\* C3: on a dirty session every write fails with L2DBIsDirty until cleanup
\* is called; cleanup, with or without only_flag, leaves the DIRTY flag
\* cleared; the write that follows it on a writable session succeeds
C3_CleanupClearsDirty ==
    [][/\ (Dirty /\ result'.op = "write" /\ ncalls' = ncalls + 1)
            => result'.exc = "L2DBIsDirty"
       /\ (result'.op \in {"cleanup", "cleanup(only_flag)"} /\ ncalls' = ncalls + 1)
            => (result'.exc = "none" /\ ~Flag(header', "DIRTY"))
       /\ (/\ result.op \in {"cleanup", "cleanup(only_flag)"}
           /\ result'.op = "write" /\ ncalls' = ncalls + 1
           /\ result'.vtype = <<>> /\ "w" \in mode)
            => result'.exc = "none"]_vars

\* C4: on a clean, writable session a lookup after a write finds what was
\* written, so that read(key) returns the value last written, and read(key)
\* reports not-found for a key just deleted and for every key of a database
\* opened empty
C4_ReadReturnsLastWrite ==
    (~Dirty /\ {"r", "w"} \subseteq mode) =>
        /\ (result.op = "write" /\ result.vtype = <<>>)
            => /\ result.exc = "none"
               /\ read(result.key, <<>>).exc = "none"
               /\ read(result.key, <<>>).ret = result.val
        /\ result.op = "delete"
            => read(result.key, <<>>).exc = "L2DBKeyError"
        /\ (result.op = "open" /\ StoredIndex = <<>>)
            => \A k \in Keys : read(k, <<>>).exc = "L2DBKeyError"

\* the step writes, to a key that is present, a value whose encoding is not
\* longer than the key's value range
FittingWrite ==
    /\ CleanCall("write") /\ Present(result'.key)
    /\ Len(valbin_of(result'.val))
         <= Lookup(StoredIndex, Wide, result'.key).offs[2]
            - Lookup(StoredIndex, Wide, result'.key).offs[1]

\* the step writes, to a key that is present, a value whose encoding is
\* strictly shorter than the key's value range
ShrinkingWrite ==
    /\ FittingWrite
    /\ Len(valbin_of(result'.val))
         < Lookup(StoredIndex, Wide, result'.key).offs[2]
           - Lookup(StoredIndex, Wide, result'.key).offs[1]

\* the step writes, to a key that is present, a value whose encoding is
\* longer than the key's value range
GrowingWrite ==
    /\ CleanCall("write") /\ Present(result'.key)
    /\ Len(valbin_of(result'.val))
         > Lookup(StoredIndex, Wide, result'.key).offs[2]
           - Lookup(StoredIndex, Wide, result'.key).offs[1]

\* the entries of every key but the one written, with their bytes, are after
\* the step what they were before
OthersUntouched ==
    Bindings(StoredValues', OtherEntries(StoredIndex', Wide', result'.key))
        = Bindings(StoredValues, OtherEntries(StoredIndex, Wide, result'.key))

\* C5: a write to an existing key of a value whose encoding is not longer
\* than the key's value range changes neither the number of index entries
\* nor the offsets, type tag, key name or stored bytes of any other key
C5_FittingWriteFrame ==
    [][FittingWrite
        => /\ Len(Entries(StoredIndex', Wide')) = Len(Entries(StoredIndex, Wide))
           /\ OthersUntouched]_vars

\* C6: overwriting an existing key with a strictly shorter encoding of
\* length n leaves the length of the value block unchanged, keeps the
\* entry's value_start, and sets value_end so that value_end - value_start = n
C6_ShrinkingWriteRange ==
    [][ShrinkingWrite
        => /\ Len(StoredValues') = Len(StoredValues)
           /\ EntriesOf(StoredIndex', Wide', result'.key) # <<>>
           /\ Lookup(StoredIndex', Wide', result'.key).offs[1]
                = Lookup(StoredIndex, Wide, result'.key).offs[1]
           /\ Lookup(StoredIndex', Wide', result'.key).offs[2]
                - Lookup(StoredIndex', Wide', result'.key).offs[1]
                = Len(valbin_of(result'.val))]_vars

\* C7: overwriting an existing key with an encoding longer than its value
\* range appends the new bytes at the end of the value block and repoints
\* the key's entry to them, leaves every other key's entry and bytes as they
\* were, and a read of the key then yields the new value
C7_GrowingWriteRelocates ==
    [][GrowingWrite
        => /\ StoredValues' = StoredValues \o valbin_of(result'.val)
           /\ EntriesOf(StoredIndex', Wide', result'.key) # <<>>
           /\ Lookup(StoredIndex', Wide', result'.key).offs
                = <<Len(StoredValues), Len(StoredValues) + Len(valbin_of(result'.val))>>
           /\ OthersUntouched
           /\ "r" \in mode => (read(result.key, <<>>).ret = result.val)']_vars

\* C8: writing a key that is not in the index appends the encoded value at
\* the end of the value block and exactly one entry (value_start, value_end,
\* type tag, key name, 0x00) at the end of the index block, whose range
\* covers exactly the appended bytes
C8_AbsentKeyAppends ==
    [][(CleanCall("write") /\ result'.vtype = <<>> /\ ~Present(result'.key))
        => /\ StoredValues' = StoredValues \o valbin_of(result'.val)
           /\ StoredIndex' = StoredIndex
                \o Entry(Len(StoredValues), Len(StoredValues) + Len(valbin_of(result'.val)),
                         get_type(result'.val), result'.key, Wide)]_vars

\* C9: in every state of a buffered session the index length stored in the
\* header (bytes 14..18) is the byte length of the index block
C9_HeaderIndexLength ==
    "f" \notin mode => get_headerdata(header).idx_len = Len(index)

\* C10: the key names of the index are pairwise distinct in every state
C10_UniqueKeyNames ==
    \A i, j \in 1..Len(Entries(StoredIndex, Wide)) :
        Entries(StoredIndex, Wide)[i].name = Entries(StoredIndex, Wide)[j].name => i = j

\* C11: delete(key) on an existing key removes the key's index entry, so a
\* following read(key) fails with key-not-found, while the bytes of the value
\* block and every other key's entry stay as they were
C11_DeleteRemovesEntry ==
    [][(CleanCall("delete") /\ Present(result'.key))
        => /\ EntriesOf(StoredIndex', Wide', result'.key) = <<>>
           /\ "r" \in mode => (read(result.key, <<>>).exc = "L2DBKeyError")'
           /\ StoredValues' = StoredValues
           /\ OthersUntouched]_vars

\* C12: read(key) of a key with no entry in the index fails with
\* L2DBKeyError and leaves the stored header, index block and value block
\* unchanged
C12_AbsentKeyRead ==
    [][(result'.op = "read" /\ ncalls' = ncalls + 1 /\ "r" \in mode
        /\ ~Present(result'.key))
        => /\ result'.exc = "L2DBKeyError"
           /\ Buffered.header' = Buffered.header
           /\ StoredIndex' = StoredIndex
           /\ StoredValues' = StoredValues
           /\ values' = values /\ file' = file]_vars

\* a read of an absent key has failed with key-not-found
C12_Witness ==
    /\ result.op = "read" /\ result.exc = "L2DBKeyError"
    /\ ~Present(result.key) /\ StoredIndex # <<>>

\* C13: a write on a session that is not dirty and whose mode has no 'w'
\* fails with the read-only error, a read on a session whose mode has no 'r'
\* fails with the write-only error, and neither changes the database
C13_ModeRejects ==
    [][/\ (result'.op = "write" /\ ncalls' = ncalls + 1 /\ ~Dirty /\ "w" \notin mode)
            => /\ result'.exc = "L2DBError: read-only"
               /\ UNCHANGED <<header, index, values, file>>
       /\ (result'.op = "read" /\ ncalls' = ncalls + 1 /\ "r" \notin mode)
            => /\ result'.exc = "L2DBError: write-only"
               /\ UNCHANGED <<header, index, values, file>>]_vars

\* a read was refused on a write-only session that holds entries
C13_Witness ==
    /\ result.op = "read" /\ result.exc = "L2DBError: write-only"
    /\ "r" \notin mode /\ Present(result.key)

\* the session was opened from a mapping and no call was made on it yet
OpenedFromDict == result.op = "open" /\ result.exc = "none" /\ result.val.ty = "dict"

\* the session was opened from a serialized database
OpenedFromBytes == result.op = "open" /\ result.val.ty = "bytes"

\* C14: on a session opened from a mapping m, dump() returns a mapping equal
\* to m and does not modify header, index block or value block
C14_DumpReturnsMapping ==
    [][(OpenedFromDict /\ result'.op = "dump")
        => /\ result'.ret = result.val
           /\ UNCHANGED <<header, index, values>>]_vars

\* C15: the bytes dumpbin() gives for a session built from a mapping, opened
\* as a new session, give a dump() identical to the first session's: a
\* mapping with the same keys and the same typed values
C15_ReopenSameDump ==
    [][(OpenedFromDict /\ result'.op = "dumpbin")
        => /\ dump(open("bytes", result'.ret.b, mode)) = dump(Session)
           /\ dump(open("bytes", result'.ret.b, mode)).ty = "dict"]_vars

\* C17: opening a serialized database whose first 8 bytes are not the magic
\* constant fails with a syntax error, and nothing of the input gets into
\* the session
C17_BadMagicRejected ==
    (OpenedFromBytes /\ PyTo(result.val.b, 8) # Magic)
        => /\ result.exc = "L2DBSyntaxError"
           /\ index = <<>> /\ values = <<>> /\ file = <<>>
           /\ l2db2_eval_db(result.val.b, TRUE) = "L2DBSyntaxError"

\* C18: opening a serialized database whose header holds another major spec
\* version than the engine's fails with the version-mismatch error
C18_MajorVersionRejected ==
    (OpenedFromBytes /\ spec_ver_tuple(get_headerdata(PyTo(result.val.b, 64)).spec_ver)[1] # SpecVersion[1])
        => result.exc = "L2DBVersionMismatch"

\* the arguments of the header call lie in the stated domain: the version a
\* triple of unsigned 16-bit numbers, the index length in 0..2^32-1, the
\* flags a combination of LOCKED, DIRTY and X64_INDEXES
HeaderDomain ==
    /\ result.op \in {"new_header", "get_headerdata"}
    /\ \A i \in 1..3 : spec_ver_tuple(result.args.spec_ver)[i] \in 0..65535
    /\ InRange(result.args.index_len, Long(FALSE, <<>>), Long(FALSE, Pow2(32)))
    /\ result.args.flags \in 0..7

\* C16: for every version triple of unsigned 16-bit numbers, every index
\* length in 0..2^32-1 and every combination of the three flags, new_header
\* gives exactly 64 bytes and get_headerdata of them gives back the same
\* version, index length and flags
C16_HeaderRoundTrip ==
    HeaderDomain
        => /\ result.exc = "none"
           /\ result.op = "new_header" => Len(result.ret.b) = 64
           /\ result.op = "get_headerdata"
                => /\ result.ret.spec_ver = result.args.spec_ver
                   /\ FromInt32(result.ret.idx_len) = result.args.index_len
                   /\ flagbits(result.ret.flags) = result.args.flags

\* the argument of the number call lies in the stated domain: -2^63..2^63-1
\* for a signed, 0..2^64-1 for an unsigned encoding
NumberDomain ==
    /\ result.op \in {"num2bin", "bin2num"}
    /\ IF result.args.unsigned
       THEN InRange(result.args.n, Long(FALSE, <<>>), Long(FALSE, Pow2(64)))
       ELSE InRange(result.args.n, Long(TRUE, Pow2(63)), Long(FALSE, Pow2(63)))

\* C19: decoding as 'int' what the signed encoder gives for an int in
\* -2^63..2^63-1 returns that int, and decoding as 'uin' what the unsigned
\* encoder gives for an int in 0..2^64-1 returns that int
C19_IntegerRoundTrip ==
    (NumberDomain /\ result.op = "bin2num")
        => result.exc = "none" /\ result.ret = PyInt(result.args.n)

C19_Witness ==
    /\ NumberDomain /\ result.op = "bin2num"
    /\ ~result.args.unsigned
    /\ result.args.n = Long(TRUE, Pow2(63))
    /\ result.ret = PyInt(result.args.n)

\* the smallest of the widths 1, 2, 4, 8 whose range holds n: two's
\* complement range for a signed, 0..2^(8w)-1 for an unsigned encoding
FitsWidth(n, unsigned, w) ==
    IF unsigned
    THEN InRange(n, Long(FALSE, <<>>), Long(FALSE, Pow2(8 * w)))
    ELSE InRange(n, Long(TRUE, Pow2(8 * w - 1)), Long(FALSE, Pow2(8 * w - 1)))
SmallestWidth(n, unsigned) == CHOOSE w \in {1, 2, 4, 8} :
    FitsWidth(n, unsigned, w) /\ \A u \in {1, 2, 4, 8} : FitsWidth(n, unsigned, u) => w <= u

\* C20: an int is encoded big-endian in the smallest of the widths 1, 2, 4
\* and 8 bytes whose range holds it, -128, -32768, -2^31 and -2^63 being in
\* the signed ranges and 256, 65536, 2^32 and 2^64 the unsigned thresholds
C20_SmallestWidth ==
    (NumberDomain /\ result.op = "num2bin")
        => /\ result.ret.ty = "bytes"
           /\ Len(result.ret.b) = SmallestWidth(result.args.n, result.args.unsigned)
           /\ result.ret.b = IF result.args.unsigned
                             THEN pack_unsigned(result.args.n, Len(result.ret.b))
                             ELSE pack_signed(result.args.n, Len(result.ret.b))

\* the value of the last call is an int outside -2^63..2^63-1
OutOfRangeInt(val) ==
    IsLong(val) /\ ~InRange(LongOf(val), Long(TRUE, Pow2(63)), Long(FALSE, Pow2(63)))

\* C21: a write of an int outside the signed 64-bit range does not return
\* normally, and the stored header, index block and value block are after it
\* what they were before
C21_OutOfRangeIntWrite ==
    [][(result'.op = "write" /\ ncalls' = ncalls + 1 /\ OutOfRangeInt(result'.val))
        => /\ result'.exc # "none"
           /\ Buffered.header' = Buffered.header
           /\ StoredIndex' = StoredIndex
           /\ StoredValues' = StoredValues
           /\ values' = values /\ file' = file]_vars

C21_Witness ==
    /\ result.op = "write" /\ result.exc = "TypeError"
    /\ result.val = PyLong(Long(FALSE, Pow2(63)))
    /\ "w" \in mode /\ ~Dirty /\ Present(result.key)

\* C22: a write of a boolean stores exactly one value byte, 0x00 for False
\* and 0x01 for True, under the tag 'bol', and a write of None exactly one
\* 0x00 byte under the tag 'nul'; a read of the key then returns the same
\* value and does not set DIRTY
C22_BoolNullStored ==
    (/\ result.op = "write" /\ result.exc = "none" /\ result.vtype = <<>>
     /\ result.val \in {PyBool(TRUE), PyBool(FALSE), PyNone}
     /\ ~Dirty /\ {"r", "w"} \subseteq mode)
        => /\ Present(result.key)
           /\ Lookup(StoredIndex, Wide, result.key).tag = get_type(result.val)
           /\ StoredBytes(StoredValues, Lookup(StoredIndex, Wide, result.key)) = <<result.val.n>>
           /\ read(result.key, <<>>).exc = "none"
           /\ read(result.key, <<>>).ret = result.val
           /\ ~Flag(read(result.key, <<>>).header, "DIRTY")

\* the session was opened on the path of a file and buffers it: the file
\* object was closed again by open()
BufferedOnPath == file # <<>> /\ fileref = "None" /\ "f" \notin mode

\* C23: flush() without a target on a buffered session opened from a path
\* writes the session's header, index block and value block to the file, so
\* that the file holds what a write before the flush stored
C23_FlushWritesFile ==
    [][(result'.op = "flush" /\ BufferedOnPath)
        => /\ result'.exc = "none"
           /\ file' = header \o index \o values]_vars

\* C24: flush() without a target on a session without a file behind it, one
\* opened from a mapping or from bytes, fails with the no-file-specified error
C24_FlushWithoutFile ==
    [][(result'.op = "flush" /\ fileref = "None" /\ file = <<>>)
        => result'.exc = "FileNotFoundError"]_vars

\* how often the call named c is in the list of calls made on the file object
Count(handle, c) == Cardinality({i \in 1..Len(handle) : handle[i] = c})

\* C25: a session that opened its own file object from a path has it flushed
\* and closed exactly once when a with block ends, with or without an
\* exception, and when it is disposed of; the file object is not left open,
\* and once it is closed no call is made on it any more
C25_HandleReleasedOnce ==
    [][/\ (result'.op \in {"__exit__", "__del__"} /\ fileref \in {"open", "open rb"})
            => /\ fileref' = "closed"
               /\ Count(result'.handle, "flush") = 1
               /\ Count(result'.handle, "close") = 1
       /\ (result'.op \in {"__del__", "gc"} /\ fileref = "closed")
            => result'.handle = <<>>]_vars

\* C26: an exception raised inside a with block on the session leaves the
\* with statement after __exit__ has run
C26_ExceptionPropagates ==
    [][(result'.op = "__exit__" /\ result'.raised # "none")
        => result'.exc = result'.raised]_vars

\* C27: while DIRTY is set, no read, write, delete, dump, dumpbin or flush
\* leaves the session with DIRTY unset
C27_DirtyStays ==
    [][(result'.op \in {"read", "write", "delete", "dump", "dumpbin", "flush"}
        /\ ncalls' = ncalls + 1 /\ Dirty)
        => Flag(header', "DIRTY")]_vars

\* what the write of this step leaves of the same database in a buffered
\* session: the session open() builds from the file's bytes without 'f', and
\* the write applied to it
BufferedTwin == open("bytes", file, mode \ {"f"})
BufferedTwinWrite == write_session(BufferedTwin, result'.key, result'.val, result'.vtype)

\* C29: the first write to a database leaves the file of an unbuffered ('f')
\* session equal to the serialized bytes of a buffered session given the
\* same write, and an unbuffered write that stores in place leaves the 64
\* header bytes and the other keys' entries as they were
C29_UnbufferedAsBuffered ==
    [][(result.op = "open" /\ result'.op = "write" /\ "f" \in mode /\ result'.exc = "none")
        => /\ BufferedTwinWrite.exc = "none"
           /\ file' = BufferedTwinWrite.header \o BufferedTwinWrite.index
                        \o BufferedTwinWrite.values
           /\ PyTo(file', 64) = PyTo(file, 64)
           /\ OtherEntries(StoredIndex', Wide', result'.key)
                = OtherEntries(StoredIndex, Wide, result'.key)]_vars

\* the value ranges of two index entries share a byte
Overlap(e1, e2) == e1.offs[1] < e2.offs[2] /\ e2.offs[1] < e1.offs[2]

\* C28: in every state reached by writes, every index entry has
\* value_start <= value_end <= the length of the value block, and the value
\* ranges of two entries with distinct key names do not overlap
C28_RangesInsideAndDisjoint ==
    \A i, j \in 1..Len(Entries(StoredIndex, Wide)) :
        /\ Entries(StoredIndex, Wide)[i].offs[1] <= Entries(StoredIndex, Wide)[i].offs[2]
        /\ Entries(StoredIndex, Wide)[i].offs[2] <= Len(StoredValues)
        /\ Entries(StoredIndex, Wide)[i].name # Entries(StoredIndex, Wide)[j].name
              => ~Overlap(Entries(StoredIndex, Wide)[i], Entries(StoredIndex, Wide)[j])

\* the index length a header's bytes 14..18 hold, read as an unsigned number
\* and cut to the most a buffer has after its header (a length with the top
\* bit set is beyond every buffer)
IndexLenIn(b) ==
    IF b[15] >= 128 THEN Len(b) - 64
    ELSE Min(((b[15] * 256 + b[16]) * 256 + b[17]) * 256 + b[18], Len(b) - 64)

\* C30: opening a byte buffer b of at least 64 bytes partitions it without
\* loss: the header is b[0:64], the index block the next index_len bytes, the
\* value block the rest, and dumpbin() right after open returns exactly b
C30_OpenPartitions ==
    (OpenedFromBytes /\ result.exc = "none" /\ file = <<>> /\ Len(result.val.b) >= 64)
        => /\ header = PyTo(result.val.b, 64)
           /\ index = PySlice(result.val.b, 64, 64 + IndexLenIn(result.val.b))
           /\ values = PyFrom(result.val.b, 64 + IndexLenIn(result.val.b))
           /\ dumpbin(Session) = result.val.b

====
